---------------------------- MODULE Spec2Model ----------------------------
(***************************************************************************)
(* Model of src/main.py: the Simulation class (a gravitational N-body      *)
(* integrator) and the pygame loop that drives it.                         *)
(*                                                                         *)
(* Numbers.  The program computes in IEEE binary64 (numpy).  The model     *)
(* computes the same expressions in exact rational arithmetic, extended    *)
(* with the IEEE special values the program can produce: a number is a     *)
(* record [n, d] in lowest terms with d > 0, and d = 0 encodes the         *)
(* specials: [0,0] is NaN, [1,0] is +inf, [-1,0] is -inf.  The cast to     *)
(* numpy.single is modelled bit-exactly (24-bit significand, round to      *)
(* nearest, ties to even).  A step is only taken from states on which the  *)
(* exact result is rational and fits TLC's integers (InModel).             *)
(*                                                                         *)
(* Lists are sequences; the program's indices are 0-based and are kept     *)
(* 0-based in every argument and index of the model (At, ValidIndex).      *)
(***************************************************************************)
EXTENDS Integers, Sequences, FiniteSets, TLC

VARIABLES
    masses,         \* the list object of the default argument masses=[]
    defBodies,      \* the list object of the default argument bodies=[]
    sims,           \* the Simulation instances, in order of construction
    frame,          \* the running step_euler/step_sieuler call (its locals)
    G,              \* the module global G
    last,           \* the last finished call on a Simulation and its outcome
    running,        \* the module global running (the main loop's flag)
    ui_visible,     \* the module global ui_visible
    size,           \* <<WIDTH, HEIGHT>>
    playpause_text, \* the text of playpause_button
    grav_text,      \* the hundredths shown by grav_label ("G = x.xx")
    dt,             \* the main loop's dt of the current tick
    event,          \* the event the main loop is handling in this tick
    dpc             \* where the main loop is ("api": no main loop)

vars == <<masses, defBodies, sims, frame, G, last, running, ui_visible, size,
          playpause_text, grav_text, dt, event, dpc>>

-----------------------------------------------------------------------------
(* Bounds of the model.                                                    *)

MaxBodies == 2      \* add_body is not called on a list of this length
MaxSims == 2        \* instances constructed in SpecShared
MaxTime == 1        \* no step is started once an instance's t reaches this
MaxMag == 16        \* a step starts only if every |numerator| and
                    \* denominator of the state is at most this

-----------------------------------------------------------------------------
(* Arithmetic: numpy's float operations, computed exactly.                 *)

Abs(x) == IF x < 0 THEN -x ELSE x

Sign(x) == IF x < 0 THEN -1 ELSE IF x > 0 THEN 1 ELSE 0

RECURSIVE GCD(_, _)
GCD(a, b) == IF b = 0 THEN a ELSE GCD(b, a % b)

Reduce(num, den) ==
    LET g == GCD(Abs(num), Abs(den))
    IN  IF den = 0 THEN [n |-> Sign(num), d |-> 0]
        ELSE [n |-> Sign(den) * (num \div g), d |-> Abs(den) \div g]

R(k) == [n |-> k, d |-> 1]

NaN == [n |-> 0, d |-> 0]

IsNaN(a) == a.d = 0 /\ a.n = 0

IsFinite(a) == a.d > 0

RNeg(a) == [n |-> -a.n, d |-> a.d]

RAdd(a, b) ==
    IF a.d = 0 \/ b.d = 0
    THEN IF IsNaN(a) \/ IsNaN(b) THEN NaN
         ELSE IF a.d = 0 /\ b.d = 0 THEN (IF a.n = b.n THEN a ELSE NaN)
         ELSE IF a.d = 0 THEN a ELSE b
    ELSE LET g == GCD(a.d, b.d)
         IN  Reduce(a.n * (b.d \div g) + b.n * (a.d \div g), (a.d \div g) * b.d)

RSub(a, b) == RAdd(a, RNeg(b))

RMul(a, b) ==
    IF a.d = 0 \/ b.d = 0
    THEN [n |-> Sign(a.n) * Sign(b.n), d |-> 0]
    ELSE LET g1 == GCD(Abs(a.n), b.d)
             g2 == GCD(Abs(b.n), a.d)
         IN  IF a.n = 0 \/ b.n = 0 THEN R(0)
             ELSE [n |-> (a.n \div g1) * (b.n \div g2),
                   d |-> (a.d \div g2) * (b.d \div g1)]

RDiv(a, b) ==
    IF IsNaN(a) \/ IsNaN(b) THEN NaN
    ELSE IF b.d = 0 THEN (IF a.d = 0 THEN NaN ELSE R(0))
    ELSE IF b.n = 0 THEN [n |-> Sign(a.n), d |-> 0]
    ELSE RMul(a, [n |-> Sign(b.n) * b.d, d |-> Abs(b.n)])

RLe(a, b) == a.n * b.d <= b.n * a.d

RECURSIVE ISqrtIn(_, _, _)
ISqrtIn(k, lo, hi) ==
    IF hi - lo <= 1 THEN lo
    ELSE LET mid == (lo + hi) \div 2
         IN  IF mid * mid <= k THEN ISqrtIn(k, mid, hi) ELSE ISqrtIn(k, lo, mid)

ISqrt(k) == ISqrtIn(k, 0, IF k < 46340 THEN k + 1 ELSE 46341)

IsSquare(k) == k >= 0 /\ ISqrt(k) * ISqrt(k) = k

RSqrt(a) ==
    IF a.d = 0 THEN (IF a.n = 1 THEN a ELSE NaN)
    ELSE IF a.n < 0 THEN NaN
    ELSE [n |-> ISqrt(a.n), d |-> ISqrt(a.d)]

-----------------------------------------------------------------------------
(* numpy.single: the nearest number with a 24-bit significand.             *)

SingleBits == 24

RECURSIVE Pow2(_)
Pow2(k) == IF k = 0 THEN 1 ELSE 2 * Pow2(k - 1)

RECURSIVE SingleDigits(_, _, _, _)
SingleDigits(m, r, k, den) ==
    IF r = 0 THEN Reduce(m, Pow2(k))
    ELSE IF m >= Pow2(SingleBits - 1)
    THEN LET up == 2 * r > den \/ (2 * r = den /\ m % 2 = 1)
         IN  Reduce(IF up THEN m + 1 ELSE m, Pow2(k))
    ELSE LET bit == IF 2 * r >= den THEN 1 ELSE 0
         IN  SingleDigits(2 * m + bit, 2 * r - bit * den, k + 1, den)

RECURSIVE RoundSingle(_)
RoundSingle(a) ==
    IF a.d = 0 \/ a.n = 0 THEN a
    ELSE IF Abs(a.n) \div a.d >= Pow2(SingleBits)
    THEN RMul(R(2), RoundSingle(RMul(a, [n |-> 1, d |-> 2])))
    ELSE LET x == SingleDigits(Abs(a.n) \div a.d, Abs(a.n) % a.d, 0, a.d)
         IN  [n |-> Sign(a.n) * x.n, d |-> x.d]


-----------------------------------------------------------------------------
(* numpy arrays: a 3-vector is <<x, y, z>>, a body is <<position,          *)
(* velocity>> as built by np.array([pos, vel]).                            *)

Zeros3 == <<R(0), R(0), R(0)>>

VAdd(u, v) == [k \in 1..3 |-> RAdd(u[k], v[k])]

VSub(u, v) == [k \in 1..3 |-> RSub(u[k], v[k])]

VScale(v, c) == [k \in 1..3 |-> RMul(v[k], c)]

VDiv(v, c) == [k \in 1..3 |-> RDiv(v[k], c)]

NormSq(v) == RAdd(RAdd(RMul(v[1], v[1]), RMul(v[2], v[2])), RMul(v[3], v[3]))

Norm(v) == RSqrt(NormSq(v))

Cube(a) == RMul(RMul(a, a), a)

BAdd(a, b) == <<VAdd(a[1], b[1]), VAdd(a[2], b[2])>>

BScale(b, c) == <<VScale(b[1], c), VScale(b[2], c)>>

BSingle(b) == [r \in 1..2 |-> [k \in 1..3 |-> RoundSingle(b[r][k])]]

array(pos, vel) == <<[k \in 1..3 |-> R(pos[k])], [k \in 1..3 |-> R(vel[k])]>>

-----------------------------------------------------------------------------
(* Python lists.                                                           *)

At(list, index) == list[IF index < 0 THEN index + Len(list) + 1 ELSE index + 1]

ValidIndex(list, index) == -Len(list) <= index /\ index < Len(list)

SetAt(list, index, x) ==
    [list EXCEPT ![IF index < 0 THEN index + Len(list) + 1 ELSE index + 1] = x]

Pop(list, index) ==
    LET p == IF index < 0 THEN index + Len(list) + 1 ELSE index + 1
    IN  SubSeq(list, 1, p - 1) \o SubSeq(list, p + 1, Len(list))

-----------------------------------------------------------------------------
(* The Simulation class.  self.masses of every instance is the list object *)
(* `masses` (line 28 binds the default argument and nothing rebinds it);   *)
(* self.bodies is the list object `defBodies` until a step rebinds it to   *)
(* a fresh list (lines 69, 79), which the instance record then holds.      *)

Simulation ==
    [n |-> Len(masses), t |-> R(0), running |-> TRUE, rebound |-> FALSE,
     bodies |-> <<>>]

BodiesOf(s) == IF sims[s].rebound THEN sims[s].bodies ELSE defBodies

pull_by_own_mass(bs, ms, g, i, j) ==
    LET offset == VSub(At(bs, j)[1], At(bs, i)[1])
    IN  VDiv(VScale(offset, RMul(g, R(At(ms, i)))), Cube(Norm(offset)))

\* G * self.masses[j] * offset / np.linalg.norm(offset) ** 3
pull(bs, ms, g, i, j) ==
    LET offset == VSub(At(bs, j)[1], At(bs, i)[1])
    IN  VDiv(VScale(offset, RMul(g, R(At(ms, j)))), Cube(Norm(offset)))

\* F of dv_dt after the iterations j, ..., n-1 of its loop, from F.
RECURSIVE dv_dt_from(_, _, _, _, _, _, _)
dv_dt_from(bs, ms, n, g, i, j, F) ==
    IF j >= n THEN F
    ELSE IF i = j THEN dv_dt_from(bs, ms, n, g, i, j + 1, F)
    ELSE dv_dt_from(bs, ms, n, g, i, j + 1, VAdd(F, pull(bs, ms, g, i, j)))

dv_dt(bs, ms, n, g, i) == dv_dt_from(bs, ms, n, g, i, 0, Zeros3)

ode(bs, ms, n, g, i) == <<At(bs, i)[2], dv_dt(bs, ms, n, g, i)>>

\* new[i] of step_euler.
euler_body(bs, ms, n, g, i, h) == BAdd(At(bs, i), BScale(ode(bs, ms, n, g, i), h))

sieuler_locals_plain(bs, ms, n, g, i, h) ==
    BAdd(At(bs, i), BScale(ode(bs, ms, n, g, i), h))

\* <<r1, v1>> of step_sieuler after line 77.
sieuler_locals(bs, ms, n, g, i, h) ==
    LET y0 == BAdd(At(bs, i), BScale(ode(bs, ms, n, g, i), h))
    IN  <<VAdd(y0[1], VScale(VScale(ode(bs, ms, n, g, i)[2], h), h)), y0[2]>>

\* An index of range(n) that line 57 or 58 cannot read.
RaisesIndexError(bs, ms, n) ==
    IF n > Len(bs) THEN TRUE ELSE n >= 2 /\ n > Len(ms)

None == <<>>

NoFrame ==
    [pc |-> "idle", s |-> 0, dt |-> R(0), i |-> 0, new |-> <<>>,
     r1 |-> None, v1 |-> None]

Call(op, s, index, err, val) ==
    [op |-> op, s |-> s, index |-> index, err |-> err, val |-> val]

\* sum(self.masses)
RECURSIVE SumMasses(_)
SumMasses(ms) == IF ms = <<>> THEN 0 ELSE SumMasses(SubSeq(ms, 1, Len(ms) - 1)) + ms[Len(ms)]

\* sum(self.masses[i] * self.bodies[i][row] for i in range(k)) with k >= 1
RECURSIVE WeightedSum(_, _, _, _)
WeightedSum(bs, ms, k, row) ==
    IF k = 1 THEN VAdd(Zeros3, VScale(At(bs, 0)[row], R(At(ms, 0))))
    ELSE VAdd(WeightedSum(bs, ms, k - 1, row),
              VScale(At(bs, k - 1)[row], R(At(ms, k - 1))))

center_of_mass(bs, ms, n) ==
    IF n > Len(ms) \/ n > Len(bs) THEN [err |-> "IndexError", val |-> <<>>]
    ELSE IF n <= 0
    THEN IF SumMasses(ms) = 0 THEN [err |-> "ZeroDivisionError", val |-> <<>>]
         ELSE [err |-> "ok", val |-> <<R(0)>>]
    ELSE [err |-> "ok", val |-> VDiv(WeightedSum(bs, ms, n, 1), R(SumMasses(ms)))]

linear_momentum(bs, ms, n) ==
    IF n > Len(ms) \/ n > Len(bs) THEN [err |-> "IndexError", val |-> <<>>]
    ELSE IF n <= 0 THEN [err |-> "ok", val |-> <<R(0)>>]
    ELSE [err |-> "ok", val |-> WeightedSum(bs, ms, n, 2)]

-----------------------------------------------------------------------------
(* The states a step is taken from: those on which the exact result is     *)
(* rational (every distance read by dv_dt has a rational value), whose     *)
(* numbers are small enough for the step's integer arithmetic, and, for    *)
(* step_sieuler, whose results have a single-precision value with a        *)
(* denominator of at most 2^30.                                            *)

Small(a) == IF a.d = 0 THEN TRUE ELSE Abs(a.n) <= MaxMag /\ a.d <= MaxMag

RationalNorm(v) ==
    LET q == NormSq(v) IN IF q.d = 0 THEN TRUE ELSE IsSquare(q.n) /\ IsSquare(q.d)

InSingle(a) ==
    IF a.d = 0 THEN TRUE
    ELSE IF a.n = 0 THEN TRUE
    ELSE /\ Pow2(30 - (SingleBits - 1)) * Abs(a.n) >= a.d
         /\ a.d < Pow2(29)
         /\ Abs(a.n) \div a.d < Pow2(SingleBits)

SmallState(s) ==
    \A k \in 1..Len(BodiesOf(s)), r \in 1..2, c \in 1..3 : Small(BodiesOf(s)[k][r][c])

InModel(s, h, kind) ==
    LET bs == BodiesOf(s)
        n == sims[s].n
    IN  IF RaisesIndexError(bs, masses, n) THEN TRUE
        ELSE /\ SmallState(s)
             /\ \A a, b \in 1..n : a < b => RationalNorm(VSub(bs[b][1], bs[a][1]))
             /\ kind = "sieuler" =>
                  \A k \in 0..(n - 1), r \in 1..2, c \in 1..3 :
                      InSingle(sieuler_locals(bs, masses, n, G, k, h)[r][c])

Before(t, bound) == t.n < bound * t.d

-----------------------------------------------------------------------------
(* Inputs.                                                                 *)

BodyInputs ==
    { [mass |-> 1, pos |-> <<0, 0, 0>>, vel |-> <<0, 0, 0>>],
      [mass |-> 2, pos |-> <<3, 4, 0>>, vel |-> <<0, 1, 0>>],
      [mass |-> 0, pos |-> <<3, 4, 0>>, vel |-> <<0, 0, 0>>] }

Indices == -(MaxBodies + 1)..MaxBodies

Dts == {Reduce(1, 2), R(1)}

-----------------------------------------------------------------------------
(* Calls on a Simulation, made while no other call runs.                   *)

Callable == dpc = "api" /\ frame.pc = "idle"

Driver ==
    <<running, ui_visible, size, playpause_text, grav_text, dt, event, dpc>>

\* Simulation.__init__ with the default arguments
NewSimulation ==
    /\ Callable
    /\ Len(sims) < MaxSims
    /\ sims' = Append(sims, Simulation)
    /\ last' = Call("__init__", Len(sims) + 1, 0, "ok", <<>>)
    /\ UNCHANGED <<masses, defBodies, frame, G, Driver>>

add_body(s, mass, pos, vel) ==
    /\ Callable
    /\ Len(masses) < MaxBodies /\ Len(BodiesOf(s)) < MaxBodies
    /\ sims[s].n < MaxBodies
    /\ masses' = Append(masses, mass)
    /\ defBodies' = IF sims[s].rebound THEN defBodies
                    ELSE Append(defBodies, array(pos, vel))
    /\ sims' = [sims EXCEPT ![s].bodies = IF sims[s].rebound
                                          THEN Append(@, array(pos, vel)) ELSE @,
                            ![s].n = @ + 1]
    /\ last' = Call("add_body", s, 0, "ok", <<>>)
    /\ UNCHANGED <<frame, G, Driver>>

set_body(s, index, mass, pos, vel) ==
    /\ Callable
    /\ IF ~ValidIndex(masses, index)
       THEN /\ last' = Call("set_body", s, index, "IndexError", <<>>)
            /\ UNCHANGED <<masses, defBodies, sims>>
       ELSE /\ masses' = SetAt(masses, index, mass)
            /\ IF ~ValidIndex(BodiesOf(s), index)
               THEN /\ last' = Call("set_body", s, index, "IndexError", <<>>)
                    /\ UNCHANGED <<defBodies, sims>>
               ELSE /\ last' = Call("set_body", s, index, "ok", <<>>)
                    /\ defBodies' = IF sims[s].rebound THEN defBodies
                                    ELSE SetAt(defBodies, index, array(pos, vel))
                    /\ sims' = [sims EXCEPT ![s].bodies =
                                  IF sims[s].rebound
                                  THEN SetAt(@, index, array(pos, vel)) ELSE @]
    /\ UNCHANGED <<frame, G, Driver>>

remove_body(s, index) ==
    /\ Callable
    /\ IF ~ValidIndex(masses, index)
       THEN /\ last' = Call("remove_body", s, index, "IndexError", <<>>)
            /\ UNCHANGED <<masses, defBodies, sims>>
       ELSE /\ masses' = Pop(masses, index)
            /\ IF ~ValidIndex(BodiesOf(s), index)
               THEN /\ last' = Call("remove_body", s, index, "IndexError", <<>>)
                    /\ UNCHANGED <<defBodies, sims>>
               ELSE /\ last' = Call("remove_body", s, index, "ok", <<>>)
                    /\ defBodies' = IF sims[s].rebound THEN defBodies
                                    ELSE Pop(defBodies, index)
                    /\ sims' = [sims EXCEPT ![s].bodies =
                                  IF sims[s].rebound THEN Pop(@, index) ELSE @,
                                            ![s].n = @ - 1]
    /\ UNCHANGED <<frame, G, Driver>>

call_center_of_mass(s) ==
    /\ Callable
    /\ SmallState(s)
    /\ LET r == center_of_mass(BodiesOf(s), masses, sims[s].n)
       IN  last' = Call("center_of_mass", s, 0, r.err, r.val)
    /\ UNCHANGED <<masses, defBodies, sims, frame, G, Driver>>

call_linear_momentum(s) ==
    /\ Callable
    /\ SmallState(s)
    /\ LET r == linear_momentum(BodiesOf(s), masses, sims[s].n)
       IN  last' = Call("linear_momentum", s, 0, r.err, r.val)
    /\ UNCHANGED <<masses, defBodies, sims, frame, G, Driver>>

-----------------------------------------------------------------------------
(* step_euler and step_sieuler, one action per statement of the loop.      *)

\* line 66 / line 73: new = [None for _ in range(self.n)]
Enter(kind, s, h) ==
    [pc |-> kind, s |-> s, dt |-> h, i |-> 0,
     new |-> [k \in 1..sims[s].n |-> None], r1 |-> None, v1 |-> None]

\* an exception leaves the call (and, from the main loop, the program)
Raise(op, err) ==
    /\ frame' = NoFrame
    /\ last' = Call(op, frame.s, 0, err, <<>>)
    /\ dpc' = IF dpc = "step" THEN "crashed" ELSE dpc
    /\ UNCHANGED <<masses, defBodies, sims, G, running, ui_visible, size,
                   playpause_text, grav_text, dt, event>>

CommitPerBody(op) ==
    /\ frame.i >= sims[frame.s].n
    /\ sims' = [sims EXCEPT ![frame.s].bodies = frame.new,
                            ![frame.s].rebound = TRUE,
                            ![frame.s].t =
                                RAdd(@, RMul(R(sims[frame.s].n), frame.dt))]
    /\ frame' = NoFrame
    /\ last' = Call(op, frame.s, 0, "ok", <<>>)
    /\ dpc' = IF dpc = "step" THEN "events" ELSE dpc
    /\ UNCHANGED <<masses, defBodies, G, running, ui_visible, size,
                   playpause_text, grav_text, dt, event>>

\* self.bodies = new; self.t += dt
Commit(op) ==
    /\ frame.i >= sims[frame.s].n
    /\ sims' = [sims EXCEPT ![frame.s].bodies = frame.new,
                            ![frame.s].rebound = TRUE,
                            ![frame.s].t = RAdd(@, frame.dt)]
    /\ frame' = NoFrame
    /\ last' = Call(op, frame.s, 0, "ok", <<>>)
    /\ dpc' = IF dpc = "step" THEN "events" ELSE dpc
    /\ UNCHANGED <<masses, defBodies, G, running, ui_visible, size,
                   playpause_text, grav_text, dt, event>>

step_euler(s, h) ==
    /\ Callable
    /\ Before(sims[s].t, MaxTime)
    /\ InModel(s, h, "euler")
    /\ frame' = Enter("euler", s, h)
    /\ UNCHANGED <<masses, defBodies, sims, G, last, Driver>>

step_euler_loop_in_place ==
    /\ frame.pc = "euler"
    /\ frame.i < sims[frame.s].n
    /\ ~RaisesIndexError(BodiesOf(frame.s), masses, sims[frame.s].n)
    /\ LET b == euler_body(BodiesOf(frame.s), masses, sims[frame.s].n, G,
                           frame.i, frame.dt)
       IN  /\ frame' = [frame EXCEPT !.new[frame.i + 1] = b, !.i = @ + 1]
           /\ defBodies' = IF sims[frame.s].rebound THEN defBodies
                           ELSE SetAt(defBodies, frame.i, b)
           /\ sims' = [sims EXCEPT ![frame.s].bodies =
                         IF sims[frame.s].rebound THEN SetAt(@, frame.i, b) ELSE @]
    /\ UNCHANGED <<masses, G, last, Driver>>

step_euler_loop ==
    /\ frame.pc = "euler"
    /\ frame.i < sims[frame.s].n
    /\ IF RaisesIndexError(BodiesOf(frame.s), masses, sims[frame.s].n)
       THEN Raise("step_euler", "IndexError")
       ELSE /\ frame' = [frame EXCEPT
                  !.new[frame.i + 1] =
                      euler_body(BodiesOf(frame.s), masses, sims[frame.s].n, G,
                                 frame.i, frame.dt),
                  !.i = @ + 1]
            /\ UNCHANGED <<masses, defBodies, sims, G, last, Driver>>

step_euler_end ==
    /\ frame.pc = "euler"
    /\ Commit("step_euler")

step_sieuler(s, h) ==
    /\ Callable
    /\ Before(sims[s].t, MaxTime)
    /\ InModel(s, h, "sieuler")
    /\ frame' = Enter("sieuler", s, h)
    /\ UNCHANGED <<masses, defBodies, sims, G, last, Driver>>

step_sieuler_loop ==
    /\ frame.pc = "sieuler"
    /\ frame.i < sims[frame.s].n
    /\ IF RaisesIndexError(BodiesOf(frame.s), masses, sims[frame.s].n)
       THEN Raise("step_sieuler", "IndexError")
       ELSE LET y == sieuler_locals(BodiesOf(frame.s), masses, sims[frame.s].n,
                                    G, frame.i, frame.dt)
            IN  /\ frame' = [frame EXCEPT !.new[frame.i + 1] = BSingle(y),
                                          !.r1 = y[1], !.v1 = y[2],
                                          !.i = @ + 1]
                /\ UNCHANGED <<masses, defBodies, sims, G, last, Driver>>

step_sieuler_end ==
    /\ frame.pc = "sieuler"
    /\ Commit("step_sieuler")

-----------------------------------------------------------------------------
(* The program in which a caller constructs one Simulation and calls it.   *)

Init ==
    /\ masses = <<>>
    /\ defBodies = <<>>
    /\ sims = <<[n |-> 0, t |-> R(0), running |-> TRUE, rebound |-> FALSE,
                 bodies |-> <<>>]>>
    /\ frame = NoFrame
    /\ G = Reduce(4, 5)
    /\ last = Call("__init__", 1, 0, "ok", <<>>)
    /\ running = TRUE
    /\ ui_visible = TRUE
    /\ size = <<640, 480>>
    /\ playpause_text = "Pause"
    /\ grav_text = 80
    /\ dt = R(0)
    /\ event = "none"
    /\ dpc = "api"

Next ==
    \/ \E s \in 1..Len(sims), b \in BodyInputs : add_body(s, b.mass, b.pos, b.vel)
    \/ \E s \in 1..Len(sims), k \in Indices, b \in BodyInputs :
           set_body(s, k, b.mass, b.pos, b.vel)
    \/ \E s \in 1..Len(sims), k \in Indices : remove_body(s, k)
    \/ \E s \in 1..Len(sims) : call_center_of_mass(s)
    \/ \E s \in 1..Len(sims) : call_linear_momentum(s)
    \/ \E s \in 1..Len(sims), h \in Dts : step_euler(s, h)
    \/ step_euler_loop
    \/ step_euler_end
    \/ \E s \in 1..Len(sims), h \in Dts : step_sieuler(s, h)
    \/ step_sieuler_loop
    \/ step_sieuler_end

Spec == Init /\ [][Next]_vars

(* Several instances constructed with the default arguments, called with   *)
(* one body, the indices of a list of one, and one dt.                     *)

SharedBody == [mass |-> 2, pos |-> <<3, 4, 0>>, vel |-> <<0, 1, 0>>]

SharedIndices == {-1, 0, 1}

NextShared ==
    \/ NewSimulation
    \/ \E s \in 1..Len(sims) :
           add_body(s, SharedBody.mass, SharedBody.pos, SharedBody.vel)
    \/ \E s \in 1..Len(sims), k \in SharedIndices :
           set_body(s, k, SharedBody.mass, SharedBody.pos, SharedBody.vel)
    \/ \E s \in 1..Len(sims), k \in SharedIndices : remove_body(s, k)
    \/ \E s \in 1..Len(sims) : step_euler(s, R(1))
    \/ step_euler_loop
    \/ step_euler_end
    \/ \E s \in 1..Len(sims) : step_sieuler(s, R(1))
    \/ step_sieuler_loop
    \/ step_sieuler_end

SpecShared == Init /\ [][NextShared]_vars

-----------------------------------------------------------------------------
(* The program itself: lines 125-128 build sim, lines 167-210 drive it.    *)
(* One action per statement group of the loop body: the tick (lines        *)
(* 168-173, the step through the actions above), one per event branch      *)
(* (lines 175-194), the rest of the body (lines 196-208).                  *)

TickMs == {8, 16, 50}

SliderValues == {0, 80, 125}

Sizes == {<<640, 480>>, <<800, 600>>}

\* dt = clock.tick(120)/1000.0; if dt >= 0.03: dt = 0.03
TickDt(ms) ==
    IF RLe(Reduce(3, 100), Reduce(ms, 1000)) THEN Reduce(3, 100)
    ELSE Reduce(ms, 1000)

InitDriver ==
    /\ masses = <<1, 1, 1>>
    /\ defBodies = <<array(<<0, 0, 0>>, <<0, 0, 0>>),
                     array(<<1, 0, 0>>, <<0, 1, 0>>),
                     array(<<-1, 0, 0>>, <<0, -1, 0>>)>>
    /\ sims = <<[n |-> 3, t |-> R(0), running |-> TRUE, rebound |-> FALSE,
                 bodies |-> <<>>]>>
    /\ frame = NoFrame
    /\ G = Reduce(4, 5)
    /\ last = Call("add_body", 1, 0, "ok", <<>>)
    /\ running = TRUE
    /\ ui_visible = TRUE
    /\ size = <<640, 480>>
    /\ playpause_text = "Pause"
    /\ grav_text = 80
    /\ dt = R(0)
    /\ event = "none"
    /\ dpc = "tick"

tick_inverted(ms) ==
    /\ dpc = "tick"
    /\ running
    /\ dt' = TickDt(ms)
    /\ event' = "none"
    /\ IF ~sims[1].running
       THEN /\ InModel(1, TickDt(ms), "sieuler")
            /\ frame' = Enter("sieuler", 1, TickDt(ms))
            /\ dpc' = "step"
       ELSE /\ frame' = frame
            /\ dpc' = "events"
    /\ UNCHANGED <<masses, defBodies, sims, G, last, running, ui_visible, size,
                   playpause_text, grav_text>>

tick(ms) ==
    /\ dpc = "tick"
    /\ running
    /\ dt' = TickDt(ms)
    /\ event' = "none"
    /\ IF sims[1].running
       THEN /\ InModel(1, TickDt(ms), "sieuler")
            /\ frame' = Enter("sieuler", 1, TickDt(ms))
            /\ dpc' = "step"
       ELSE /\ frame' = frame
            /\ dpc' = "events"
    /\ UNCHANGED <<masses, defBodies, sims, G, last, running, ui_visible, size,
                   playpause_text, grav_text>>

toggle_running ==
    /\ sims' = [sims EXCEPT ![1].running = ~@]
    /\ playpause_text' = IF ~sims[1].running THEN "Pause" ELSE "Play"

on_quit ==
    /\ dpc = "events"
    /\ event' = "QUIT"
    /\ running' = FALSE
    /\ UNCHANGED <<masses, defBodies, sims, frame, G, last, ui_visible, size,
                   playpause_text, grav_text, dt, dpc>>

on_videoresize(sz) ==
    /\ dpc = "events"
    /\ event' = "VIDEORESIZE"
    /\ size' = sz
    /\ UNCHANGED <<masses, defBodies, sims, frame, G, last, running, ui_visible,
                   playpause_text, grav_text, dt, dpc>>

on_grav_slider(value) ==
    /\ dpc = "events"
    /\ event' = "grav_slider"
    /\ G' = Reduce(value, 100)
    /\ grav_text' = value
    /\ UNCHANGED <<masses, defBodies, sims, frame, last, running, ui_visible,
                   size, playpause_text, dt, dpc>>

on_solution_changed ==
    /\ dpc = "events"
    /\ event' = "solution"
    /\ UNCHANGED <<masses, defBodies, sims, frame, G, last, running, ui_visible,
                   size, playpause_text, grav_text, dt, dpc>>

on_playpause_pressed ==
    /\ dpc = "events"
    /\ event' = "playpause_button"
    /\ toggle_running
    /\ UNCHANGED <<masses, defBodies, frame, G, last, running, ui_visible, size,
                   grav_text, dt, dpc>>

on_key_escape ==
    /\ dpc = "events"
    /\ event' = "K_ESCAPE"
    /\ ui_visible' = ~ui_visible
    /\ UNCHANGED <<masses, defBodies, sims, frame, G, last, running, size,
                   playpause_text, grav_text, dt, dpc>>

on_key_space ==
    /\ dpc = "events"
    /\ event' = "K_SPACE"
    /\ toggle_running
    /\ UNCHANGED <<masses, defBodies, frame, G, last, running, ui_visible, size,
                   grav_text, dt, dpc>>

\* lines 196-208, back to the loop's test
end_of_tick ==
    /\ dpc = "events"
    /\ dpc' = "tick"
    /\ UNCHANGED <<masses, defBodies, sims, frame, G, last, running, ui_visible,
                   size, playpause_text, grav_text, dt, event>>

\* line 210
quit ==
    /\ dpc = "tick"
    /\ ~running
    /\ dpc' = "quit"
    /\ UNCHANGED <<masses, defBodies, sims, frame, G, last, running, ui_visible,
                   size, playpause_text, grav_text, dt, event>>

NextDriver ==
    \/ \E ms \in TickMs : tick(ms)
    \/ step_sieuler_loop
    \/ step_sieuler_end
    \/ on_quit
    \/ \E sz \in Sizes : on_videoresize(sz)
    \/ \E value \in SliderValues : on_grav_slider(value)
    \/ on_solution_changed
    \/ on_playpause_pressed
    \/ on_key_escape
    \/ on_key_space
    \/ end_of_tick
    \/ quit

SpecDriver == InitDriver /\ [][NextDriver]_vars

-----------------------------------------------------------------------------
(* Properties.                                                             *)

Stepping == frame.pc \in {"euler", "sieuler"}

Returns == Stepping /\ frame'.pc = "idle" /\ last'.err = "ok"

Count(s) == sims[s].n

BodiesAfter(s) == IF sims'[s].rebound THEN sims'[s].bodies ELSE defBodies'

\* the new state of body i that the running step computes from bs
NewBody(bs, i) ==
    IF frame.pc = "euler"
    THEN euler_body(bs, masses, Count(frame.s), G, i, frame.dt)
    ELSE BSingle(sieuler_locals(bs, masses, Count(frame.s), G, i, frame.dt))

FiniteBody(b) == \A r \in 1..2 : \A c \in 1..3 : IsFinite(b[r][c])

\* n finite bodies, no two at the same position
DistinctPositions(bs, n) ==
    /\ \A a \in 1..n : FiniteBody(bs[a])
    /\ \A a, b \in 1..n : a < b => bs[a][1] /= bs[b][1]

\* two finite bodies at the same position
Coincident(bs, n) ==
    \E a, b \in 1..n :
        a < b /\ FiniteBody(bs[a]) /\ FiniteBody(bs[b]) /\ bs[a][1] = bs[b][1]

\* C1: while a step runs, nothing writes the masses or any body list, each
\* iteration fills exactly its own slot of new with a value computed from
\* the bodies as they were when the step began, and the step ends by
\* binding self.bodies to new once every slot is filled, each slot holding
\* the value its index alone determines from the pre-step bodies.
C1_Snapshot ==
    [][/\ (Stepping /\ frame'.pc = frame.pc) =>
            /\ UNCHANGED <<masses, defBodies, sims>>
            /\ frame'.i = frame.i + 1
            /\ \A k \in 1..Count(frame.s) :
                   frame'.new[k] = IF k = frame.i + 1
                                   THEN NewBody(BodiesOf(frame.s), frame.i)
                                   ELSE frame.new[k]
       /\ Returns =>
            /\ UNCHANGED <<masses, defBodies>>
            /\ sims'[frame.s].bodies = frame.new /\ sims'[frame.s].rebound
            /\ frame.i >= Count(frame.s)
            /\ \A k \in 1..Count(frame.s) :
                   /\ frame.new[k] /= None
                   /\ frame.new[k] = NewBody(BodiesOf(frame.s), k - 1)
      ]_vars

C1_Witness ==
    /\ Stepping
    /\ Count(frame.s) = 2
    /\ frame.i = 1
    /\ frame.new[1] /= BodiesOf(frame.s)[1]
    /\ frame.new[2] = None
    /\ DistinctPositions(BodiesOf(frame.s), 2)

\* C2: t is 0 at construction; a step that returns adds exactly its dt to
\* the t of its instance, once all n bodies have their new state, and
\* (dt >= 0) does not decrease it; no other action changes any t.
C2_Time ==
    /\ \A s \in 1..Len(sims) : sims[s].t = R(0)
    /\ [][\A s \in 1..Len(sims) :
            IF Returns /\ s = frame.s
            THEN /\ frame.i >= Count(s)
                 /\ sims'[s].bodies = frame.new
                 /\ sims'[s].t = RAdd(sims[s].t, frame.dt)
                 /\ (RLe(R(0), frame.dt) => RLe(sims[s].t, sims'[s].t))
            ELSE sims'[s].t = sims[s].t
         ]_vars

C2_Witness ==
    /\ frame.pc = "idle"
    /\ last.op = "step_sieuler"
    /\ sims[1].t = Reduce(3, 2)
    /\ sims[1].n = 2

\* C3: a step that evaluates forces while two bodies have the same position
\* ends with the error SingularConfiguration and leaves masses, bodies and
\* time as they were.
C3_SingularAborts ==
    [][(Stepping /\ frame'.pc = "idle"
          /\ Coincident(BodiesOf(frame.s), Count(frame.s))) =>
            /\ last'.err = "SingularConfiguration"
            /\ UNCHANGED <<masses, defBodies, sims>>
      ]_vars

\* C4: for every instance the mass list, the body list and n agree.
C4_LockStep ==
    \A s \in 1..Len(sims) :
        /\ Len(masses) = Len(BodiesOf(s))
        /\ Len(BodiesOf(s)) = sims[s].n

\* C5: set_body and remove_body with an index outside 0..n-1 end with an
\* out-of-range error and leave masses, bodies, n and t unchanged.
C5_BadIndexRejected ==
    [][(Callable /\ frame'.pc = "idle"
          /\ last'.op \in {"set_body", "remove_body"}
          /\ (last'.index < 0 \/ last'.index >= Count(last'.s))) =>
            /\ last'.err = "IndexError"
            /\ UNCHANGED <<masses, defBodies, sims>>
      ]_vars

\* C6: remove_body(i) with 0 <= i < n returns, n drops by one, the entries
\* below i stay, and every index k >= i then holds what k+1 held.
C6_RemoveShifts ==
    [][(Callable /\ frame'.pc = "idle" /\ last'.op = "remove_body"
          /\ 0 <= last'.index /\ last'.index < Count(last'.s)) =>
            LET s == last'.s
                i == last'.index
            IN  /\ last'.err = "ok"
                /\ sims'[s].n = sims[s].n - 1
                /\ sims'[s].t = sims[s].t
                /\ Len(masses') = Len(masses) - 1
                /\ Len(BodiesAfter(s)) = Len(BodiesOf(s)) - 1
                /\ \A k \in 0..(sims[s].n - 2) :
                       /\ At(masses', k) = At(masses, IF k < i THEN k ELSE k + 1)
                       /\ At(BodiesAfter(s), k) =
                              At(BodiesOf(s), IF k < i THEN k ELSE k + 1)
      ]_vars

\* C7: center_of_mass fails when there is no body or the masses sum to
\* zero, and for one body returns that body's position.
C7_Guarded ==
    last.op = "center_of_mass" =>
        /\ (Count(last.s) = 0 \/ SumMasses(masses) = 0) => last.err /= "ok"
        /\ Count(last.s) = 1 =>
              (last.err = "ok" => last.val = BodiesOf(last.s)[1][1])

\* C8: when step_euler runs on bodies at pairwise distinct positions, the
\* pulls of each pair are opposite once weighted by the pulled body's mass,
\* the mass-weighted accelerations sum to zero, and the new states have
\* the linear momentum of the old ones.
C8_Momentum ==
    LET s == frame.s
        n == Count(frame.s)
        bs == BodiesOf(frame.s)
        accels == [k \in 1..n |-> <<Zeros3, dv_dt(bs, masses, n, G, k - 1)>>]
    IN  (frame.pc = "euler" /\ n >= 1 /\ n <= Len(bs) /\ n <= Len(masses)
           /\ DistinctPositions(bs, n)) =>
            /\ \A a, b \in 0..(n - 1) : a /= b =>
                   VScale(pull(bs, masses, G, a, b), R(At(masses, a)))
                     = VScale(pull(bs, masses, G, b, a), R(-At(masses, b)))
            /\ WeightedSum(accels, masses, n, 2) = Zeros3
            /\ frame.i = n =>
                   linear_momentum(frame.new, masses, n)
                     = linear_momentum(bs, masses, n)

C8_Witness ==
    /\ frame.pc = "euler"
    /\ Count(frame.s) = 2
    /\ frame.i = 2
    /\ masses = <<1, 2>>
    /\ DistinctPositions(BodiesOf(frame.s), 2)
    /\ frame.new[1][2] /= BodiesOf(frame.s)[1][2]

\* C9: after line 77 of an iteration of step_sieuler, v1 is vel + dt*accel
\* and r1 is pos + dt*vel + dt*dt*accel = pos + dt*v1, with accel the
\* acceleration of the pre-step state; new[i] is their single-precision
\* value.
C9_SemiImplicit ==
    (frame.pc = "sieuler" /\ frame.i >= 1) =>
        LET i == frame.i - 1
            n == Count(frame.s)
            pos == At(BodiesOf(frame.s), i)[1]
            vel == At(BodiesOf(frame.s), i)[2]
            accel == dv_dt(BodiesOf(frame.s), masses, n, G, i)
            h == frame.dt
        IN  /\ frame.v1 = VAdd(vel, VScale(accel, h))
            /\ frame.r1 = VAdd(VAdd(pos, VScale(vel, h)), VScale(accel, RMul(h, h)))
            /\ frame.r1 = VAdd(pos, VScale(frame.v1, h))
            /\ frame.new[frame.i] = BSingle(<<frame.r1, frame.v1>>)

C9_Witness ==
    /\ frame.pc = "sieuler"
    /\ frame.i = 2
    /\ Count(frame.s) = 2
    /\ DistinctPositions(BodiesOf(frame.s), 2)
    /\ dv_dt(BodiesOf(frame.s), masses, 2, G, 1) /= Zeros3
    /\ frame.new[2] /= <<frame.r1, frame.v1>>

=============================================================================
